---- MODULE Spec2Model ----
(***************************************************************************)
(* Model of raytracer.py: the helper functions normalize and look_at, the  *)
(* OBJ selection menu obj_menu, the loader load_obj and the frame loop of  *)
(* main (event handling, movement, view-matrix construction, flip).        *)
(*                                                                         *)
(* Floating-point numbers are modelled in fixed point: a real number r is  *)
(* the integer round(r * Scale).  Angles, lengths and matrix entries all   *)
(* use the same resolution.  np.sin / np.cos / np.sqrt are computed by     *)
(* integer algorithms (Taylor series after range reduction, integer square *)
(* root), every division rounding to nearest as float arithmetic does.     *)
(***************************************************************************)
EXTENDS Integers, Sequences, FiniteSets, TLC

VARIABLES
    pc,             \* position of main: start, menu, menu_events, load, setup,
                    \* loop, events, render, flip, done, returned, exited, raised
    obj_files,      \* obj_menu: the entries of os.listdir that end in .obj
    selected_index, \* obj_menu
    menu_active,    \* obj_menu; the three locals are gone once obj_menu returned
    obj_path,       \* main: index in obj_files of the returned path, 0 = none;
                    \* read by load_obj only, and not tracked after the load
    event,          \* the event the running for loop over pygame.event.get() is
                    \* handling; NoEvent before its first and after the loop ended
    ev_i,           \* position of that for loop in the list (next event to handle)
    stdout,         \* lines printed
    ctx,            \* TRUE once moderngl.create_context() and the buffers exist
    cam_pos, yaw, pitch, running,   \* main: the camera and the loop flag
    keys,           \* main: pygame.key.get_pressed(), the held movement keys
    forward, right, \* main: the movement basis of the current frame
    view,           \* main: the view matrix of the current frame
    frame,          \* number of iterations of the frame loop started
    flips,          \* number of pygame.display.flip() calls of the frame loop
    yaw0, pitch0,   \* history: yaw and pitch when the running for loop over the
                    \* frame's events began (the current values outside that loop)
    rel_sum,        \* history: the summed rel of the MOUSEMOTION events handled
                    \* by the running for loop
    clamped,        \* history: "no", "yes" once np.clip changed the pitch in the
                    \* running for loop, "then_moved" once a MOUSEMOTION followed
    call, ret       \* a helper function applied on its own: arguments, result

vars == <<pc, obj_files, selected_index, menu_active, obj_path, event,
          ev_i, stdout, ctx, cam_pos, yaw, pitch, running, keys, forward, right,
          view, frame, flips, yaw0, pitch0, rel_sum, clamped, call, ret>>

\* ------------------------------------------------------------------ bounds
\* frames of the main loop that may start
MaxFrames == 2
\* events one pygame.event.get() may return
MaxEvents == 2

\* ------------------------------------------------------ fixed-point numbers
\* resolution of the fixed-point representation: 1.0 is Scale
Scale == 10^4
\* np.pi
PI == 31416
HALF_PI == PI \div 2
TWO_PI == 2 * PI
\* MOVE_SPEED = 0.1, LOOK_SPEED = 0.003
MOVE_SPEED == 1000
LOOK_SPEED == 30

\* F applied to the value of x: x is evaluated once, as an assignment evaluates
\* its right-hand side once before the name is used
Let(x, F(_)) == CHOOSE r \in {F(y) : y \in {x}} : TRUE

\* a / b rounded to the nearest integer (b > 0), as a float division rounds
RDiv(a, b) == (2 * a + b) \div (2 * b)

\* x * y of two fixed-point numbers
FMul(x, y) == RDiv(x * y, Scale)

RECURSIVE SqrtSearch(_, _, _)
\* the r with lo <= r < hi and r*r <= n < (r+1)*(r+1); n, lo, hi are values
SqrtSearch(n, lo, hi) ==
    IF hi - lo <= 1 THEN lo
    ELSE Let((lo + hi) \div 2, LAMBDA mid :
             IF mid * mid <= n THEN SqrtSearch(n, mid, hi)
                               ELSE SqrtSearch(n, lo, mid))

\* np.sqrt: sqrt(n) rounded to nearest
ISqrt(n) ==
    Let(n, LAMBDA m :
        Let(SqrtSearch(m, 0, 46341), LAMBDA r : IF m - r * r > r THEN r + 1 ELSE r))

\* sin on [-pi/2, pi/2]: x - x^3/3! + x^5/5! - x^7/7! + x^9/9!
SinT(x0) ==
    Let(x0, LAMBDA x :
    Let(RDiv(FMul(RDiv(FMul(x, x), 2), x), 3), LAMBDA t3 :
    Let(RDiv(FMul(RDiv(FMul(t3, x), 4), x), 5), LAMBDA t5 :
    Let(RDiv(FMul(RDiv(FMul(t5, x), 6), x), 7), LAMBDA t7 :
    Let(RDiv(FMul(RDiv(FMul(t7, x), 8), x), 9), LAMBDA t9 :
        x - t3 + t5 - t7 + t9)))))

\* cos on [-pi/2, pi/2]: 1 - x^2/2! + x^4/4! - x^6/6! + x^8/8! - x^10/10!
CosT(x0) ==
    Let(x0, LAMBDA x :
    Let(RDiv(FMul(x, x), 2), LAMBDA t2 :
    Let(RDiv(FMul(RDiv(FMul(t2, x), 3), x), 4), LAMBDA t4 :
    Let(RDiv(FMul(RDiv(FMul(t4, x), 5), x), 6), LAMBDA t6 :
    Let(RDiv(FMul(RDiv(FMul(t6, x), 7), x), 8), LAMBDA t8 :
    Let(RDiv(FMul(RDiv(FMul(t8, x), 9), x), 10), LAMBDA t10 :
        Scale - t2 + t4 - t6 + t8 - t10))))))

\* an angle reduced to [-pi, pi)
Wrap(a) == ((a + PI) % TWO_PI) - PI

\* np.sin
Sin(a) ==
    Let(Wrap(a), LAMBDA w :
        IF w > HALF_PI THEN SinT(PI - w)
        ELSE IF w < -HALF_PI THEN SinT(-PI - w)
        ELSE SinT(w))

\* np.cos
Cos(a) ==
    Let(Wrap(a), LAMBDA w :
        IF w > HALF_PI THEN -CosT(PI - w)
        ELSE IF w < -HALF_PI THEN -CosT(PI + w)
        ELSE CosT(w))

\* np.clip
Clip(x0, lo, hi) == Let(x0, LAMBDA x : IF x < lo THEN lo ELSE IF x > hi THEN hi ELSE x)

\* ------------------------------------------------------------------ vectors
Zero3 == <<0, 0, 0>>
WorldUp == <<0, Scale, 0>>
\* a + b, a - b
VAdd(a0, b0) ==
    Let(<<a0, b0>>, LAMBDA p :
        <<p[1][1] + p[2][1], p[1][2] + p[2][2], p[1][3] + p[2][3]>>)
VSub(a0, b0) ==
    Let(<<a0, b0>>, LAMBDA p :
        <<p[1][1] - p[2][1], p[1][2] - p[2][2], p[1][3] - p[2][3]>>)
\* v * k for a fixed-point scalar k
VScale(v0, k) == Let(v0, LAMBDA v : <<FMul(v[1], k), FMul(v[2], k), FMul(v[3], k)>>)
\* np.dot
Dot(a0, b0) ==
    Let(<<a0, b0>>, LAMBDA p :
        RDiv(p[1][1] * p[2][1] + p[1][2] * p[2][2] + p[1][3] * p[2][3], Scale))
\* np.cross
Cross(a0, b0) ==
    Let(<<a0, b0>>, LAMBDA p :
        <<RDiv(p[1][2] * p[2][3] - p[1][3] * p[2][2], Scale),
          RDiv(p[1][3] * p[2][1] - p[1][1] * p[2][3], Scale),
          RDiv(p[1][1] * p[2][2] - p[1][2] * p[2][1], Scale)>>)
\* np.linalg.norm
Norm(v0) == Let(v0, LAMBDA v : ISqrt(v[1] * v[1] + v[2] * v[2] + v[3] * v[3]))

\* normalize that falls back to the x axis on a zero vector
NormalizeFallback(v0) ==
    Let(v0, LAMBDA v :
    Let(Norm(v), LAMBDA n :
        IF n # 0
        THEN <<RDiv(v[1] * Scale, n), RDiv(v[2] * Scale, n), RDiv(v[3] * Scale, n)>>
        ELSE <<Scale, 0, 0>>))

\* normalize(v): n = norm(v); v / n if n != 0 else v
normalize(v0) ==
    Let(v0, LAMBDA v :
    Let(Norm(v), LAMBDA n :
        IF n # 0
        THEN <<RDiv(v[1] * Scale, n), RDiv(v[2] * Scale, n), RDiv(v[3] * Scale, n)>>
        ELSE v))

\* look_at with the third row holding f instead of -f
look_at_unflipped(eye0, target, up) ==
    Let(eye0, LAMBDA eye :
    Let(normalize(VSub(target, eye)), LAMBDA f :
    Let(normalize(Cross(f, up)), LAMBDA s :
    Let(Cross(s, f), LAMBDA u :
        << <<s[1], s[2], s[3], -Dot(s, eye)>>,
           <<u[1], u[2], u[3], -Dot(u, eye)>>,
           <<f[1], f[2], f[3], Dot(f, eye)>>,
           <<0, 0, 0, Scale>> >>))))

\* look_at(eye, target, up): the 4x4 view matrix, a sequence of four rows
look_at(eye0, target, up) ==
    Let(eye0, LAMBDA eye :
    Let(normalize(VSub(target, eye)), LAMBDA f :
    Let(normalize(Cross(f, up)), LAMBDA s :
    Let(Cross(s, f), LAMBDA u :
        << <<s[1], s[2], s[3], -Dot(s, eye)>>,
           <<u[1], u[2], u[3], -Dot(u, eye)>>,
           <<-f[1], -f[2], -f[3], Dot(f, eye)>>,
           <<0, 0, 0, Scale>> >>))))

\* ------------------------------------------------------------------- inputs
\* a pygame event; key and rel are meaningful for KEYDOWN and MOUSEMOTION only
Ev(t, k, r) == [type |-> t, key |-> k, rel |-> r]
NoEvent == Ev("none", "none", <<0, 0>>)
QuitEv == Ev("QUIT", "none", <<0, 0>>)
KeyEv(k) == Ev("KEYDOWN", k, <<0, 0>>)
MotionEv(r) == Ev("MOUSEMOTION", "none", r)

\* mouse deltas (pixels) a MOUSEMOTION event may carry
MouseRels == {<<100, 600>>, <<0, -600>>, <<0, -300>>}
\* events the menu may receive
MenuEvents == {QuitEv, KeyEv("K_UP"), KeyEv("K_DOWN"), KeyEv("K_RETURN"), KeyEv("K_w")}
\* events the frame loop may receive
LoopEvents == {QuitEv, KeyEv("K_ESCAPE"), KeyEv("K_w")} \cup {MotionEv(r) : r \in MouseRels}
\* sets of held keys pygame.key.get_pressed() may report
KeySets == {{}, {"K_w"}, {"K_s", "K_a", "K_e"}, {"K_d", "K_q"}}

\* directory contents os.listdir may return
File(stem, ext) == [stem |-> stem, ext |-> ext]
Listings ==
    { <<>>,
      <<File("notes", "txt")>>,
      <<File("room", "obj")>>,
      <<File("a", "obj"), File("readme", "txt"), File("b", "OBJ"), File("c", "obj")>> }

\* str.lower on a file extension
Lower(ext) == IF ext = "OBJ" THEN "obj" ELSE IF ext = "TXT" THEN "txt" ELSE ext

\* [f for f in os.listdir(obj_folder) if f.lower().endswith(".obj")]
ObjFilter(l) == SelectSeq(l, LAMBDA f : Lower(f.ext) = "obj")

\* groups of variables
menuVars == <<obj_files, selected_index, menu_active>>
camVars == <<cam_pos, yaw, pitch>>
basisVars == <<keys, forward, right>>
histVars == <<yaw0, pitch0, rel_sum, clamped>>
fnVars == <<call, ret>>

\* ---------------------------------------------------------------- obj_menu
\* K_UP without the modulo
SelectUpNoWrap(i, n) == i - 1

\* K_UP: (selected_index - 1) % len(obj_files), as a 0-based index
SelectUp(i, n) == (i - 1) % n

\* K_DOWN: (selected_index + 1) % len(obj_files)
SelectDown(i, n) == (i + 1) % n

\* main calls obj_menu: os.listdir is read and filtered; an empty list raises
MenuOpen ==
    /\ pc = "start"
    /\ \E listing \in Listings : obj_files' = ObjFilter(listing)
    /\ IF obj_files' = <<>>
       THEN /\ pc' = "raised"
            /\ UNCHANGED <<selected_index, menu_active>>
       ELSE /\ pc' = "menu"
            /\ selected_index' = 0
            /\ menu_active' = TRUE
    /\ UNCHANGED <<obj_path, event, ev_i, stdout, ctx, camVars, running,
                   basisVars, view, frame, flips, histVars, fnVars>>

\* the menu's while test passes: draw, then pygame.event.get()
MenuPoll ==
    /\ pc = "menu"
    /\ event' = NoEvent
    /\ ev_i' = 1
    /\ pc' = "menu_events"
    /\ UNCHANGED <<menuVars, obj_path, stdout, ctx, camVars, running,
                   basisVars, view, frame, flips, histVars, fnVars>>

\* one iteration of the menu's for loop: the list holds a next event e
MenuEvent ==
    /\ pc = "menu_events"
    /\ ev_i <= MaxEvents
    /\ \E e \in MenuEvents :
          LET n == Len(obj_files)
          IN /\ event' = e
             /\ IF e.type = "QUIT"
                THEN /\ pc' = "exited"
                     /\ UNCHANGED <<selected_index, menu_active, ev_i>>
                ELSE /\ pc' = pc
                     /\ ev_i' = ev_i + 1
                     /\ selected_index' =
                           IF e.type = "KEYDOWN" /\ e.key = "K_UP"
                           THEN SelectUp(selected_index, n)
                           ELSE IF e.type = "KEYDOWN" /\ e.key = "K_DOWN"
                           THEN SelectDown(selected_index, n)
                           ELSE selected_index
                     /\ menu_active' =
                           IF e.type = "KEYDOWN" /\ e.key = "K_RETURN" THEN FALSE
                           ELSE menu_active
    /\ UNCHANGED <<obj_files, obj_path, stdout, ctx, camVars, running,
                   basisVars, view, frame, flips, histVars, fnVars>>

\* the list is exhausted: flip, tick, and the while test; when it fails the path
\* os.path.join(obj_folder, obj_files[selected_index]) is returned to main
MenuFlip ==
    /\ pc = "menu_events"
    /\ IF menu_active
       THEN /\ pc' = "menu"
            /\ UNCHANGED <<obj_path, menuVars>>
       ELSE /\ pc' = "load"
            /\ obj_path' = selected_index + 1
            /\ obj_files' = <<>>
            /\ selected_index' = 0
            /\ menu_active' = FALSE
    /\ event' = NoEvent
    /\ ev_i' = 1
    /\ UNCHANGED <<stdout, ctx, camVars, running, basisVars,
                   view, frame, flips, histVars, fnVars>>

\* ---------------------------------------------------------------- load_obj
\* load_obj: what it raises for a path that exists or not, whose content parses or not
load_obj(exists, parses) ==
    IF ~exists THEN "FileNotFoundError"
    ELSE IF ~parses THEN "ParseError"
    ELSE "none"

\* main's load step without the except clause: the exception leaves main
LoadMeshUncaught ==
    /\ pc = "load"
    /\ \E exists \in BOOLEAN, parses \in BOOLEAN :
          pc' = IF load_obj(exists, parses) # "none" THEN "raised" ELSE "setup"
    /\ UNCHANGED <<menuVars, obj_path, event, ev_i, stdout, ctx, camVars,
                   running, basisVars, view, frame, flips, histVars, fnVars>>

\* main: try load_obj(obj_path); except Exception: print and return
LoadMesh ==
    /\ pc = "load"
    /\ \E exists \in BOOLEAN, parses \in BOOLEAN :
          LET raised == load_obj(exists, parses)
          IN IF raised # "none"
             THEN /\ stdout' = Append(stdout, <<"Error loading OBJ", raised>>)
                  /\ pc' = "returned"
             ELSE /\ pc' = "setup"
                  /\ UNCHANGED stdout
    /\ UNCHANGED <<menuVars, obj_path, event, ev_i, ctx, camVars, running,
                   basisVars, view, frame, flips, histVars, fnVars>>

\* main: the ModernGL context, buffers and program, then the camera's initial
\* state; obj_path has no reader from here on
Setup ==
    /\ pc = "setup"
    /\ ctx' = TRUE
    /\ cam_pos' = <<0, Scale, 4 * Scale>>
    /\ yaw' = PI
    /\ pitch' = 0
    /\ yaw0' = PI
    /\ pitch0' = 0
    /\ running' = TRUE
    /\ obj_path' = 0
    /\ pc' = "loop"
    /\ UNCHANGED <<menuVars, event, ev_i, stdout, basisVars,
                   view, frame, flips, rel_sum, clamped, fnVars>>

\* -------------------------------------------------------------- frame loop
\* the look update without the clamp
ApplyLookUnclamped(y, p, rel) ==
    [yaw |-> y - rel[1] * LOOK_SPEED, pitch |-> p + rel[2] * LOOK_SPEED]

\* the look update with yaw turning the other way
ApplyLookMirrored(y, p, rel) ==
    [yaw |-> y + rel[1] * LOOK_SPEED,
     pitch |-> Clip(p + rel[2] * LOOK_SPEED, -HALF_PI, HALF_PI)]

\* MOUSEMOTION: yaw -= mx * LOOK_SPEED; pitch += my * LOOK_SPEED; pitch = clip(pitch)
ApplyLook(y, p, rel) ==
    [yaw |-> y - rel[1] * LOOK_SPEED,
     pitch |-> Clip(p + rel[2] * LOOK_SPEED, -HALF_PI, HALF_PI)]

\* forward = [sin(yaw), 0, cos(yaw)]
Forward(y) == <<Sin(y), 0, Cos(y)>>

\* right = normalize(cross(forward, [0,1,0]))
Right(y) == normalize(Cross(Forward(y), WorldUp))

\* the six "if keys[...]" statements applied in order to cam_pos, f and r
\* being the frame's forward and right
MoveKeys(pos, f, r, ks) ==
    Let(IF "K_w" \in ks THEN VAdd(pos, VScale(f, MOVE_SPEED)) ELSE pos, LAMBDA p1 :
    Let(IF "K_s" \in ks THEN VSub(p1, VScale(f, MOVE_SPEED)) ELSE p1, LAMBDA p2 :
    Let(IF "K_a" \in ks THEN VSub(p2, VScale(r, MOVE_SPEED)) ELSE p2, LAMBDA p3 :
    Let(IF "K_d" \in ks THEN VAdd(p3, VScale(r, MOVE_SPEED)) ELSE p3, LAMBDA p4 :
    Let(IF "K_q" \in ks THEN <<p4[1], p4[2] + MOVE_SPEED, p4[3]>> ELSE p4, LAMBDA p5 :
        IF "K_e" \in ks THEN <<p5[1], p5[2] - MOVE_SPEED, p5[3]>> ELSE p5)))))

\* the movement step with sin and cos exchanged in forward
MoveStepSwapped(pos, y, ks) ==
    Let(<<Cos(y), 0, Sin(y)>>, LAMBDA f :
        MoveKeys(pos, f, normalize(Cross(f, WorldUp)), ks))

\* the movement step of a frame: forward, right, then the key tests
MoveStep(pos, y, ks) == MoveKeys(pos, Forward(y), Right(y), ks)

\* target = cam_pos + [sin(yaw)cos(pitch), sin(pitch), cos(yaw)cos(pitch)]
LookTarget(pos, y, p) ==
    Let(Cos(p), LAMBDA cp :
        VAdd(pos, <<FMul(Sin(y), cp), Sin(p), FMul(Cos(y), cp)>>))

\* view = look_at(cam_pos, target, [0,1,0])
ViewMatrix(pos, y, p) == look_at(pos, LookTarget(pos, y, p), WorldUp)

\* a quit signal: the window-close event or Escape pressed
IsQuit(e) == e.type = "QUIT" \/ (e.type = "KEYDOWN" /\ e.key = "K_ESCAPE")

\* the loop test fails: pygame.quit()
LoopExit ==
    /\ pc = "loop"
    /\ ~running
    /\ pc' = "done"
    /\ UNCHANGED <<menuVars, obj_path, event, ev_i, stdout, ctx, camVars,
                   running, basisVars, view, frame, flips, histVars, fnVars>>

\* the loop test passes: clock.tick, then pygame.event.get()
Poll ==
    /\ pc = "loop"
    /\ running
    /\ frame < MaxFrames
    /\ event' = NoEvent
    /\ ev_i' = 1
    /\ frame' = frame + 1
    /\ yaw0' = yaw
    /\ pitch0' = pitch
    /\ rel_sum' = <<0, 0>>
    /\ clamped' = "no"
    /\ pc' = "events"
    /\ UNCHANGED <<menuVars, obj_path, stdout, ctx, camVars, running,
                   basisVars, view, flips, fnVars>>

\* the history of the clamp after a MOUSEMOTION carrying rel
ClampedNext(c, p, rel) ==
    IF c # "no" THEN "then_moved"
    ELSE IF ApplyLookUnclamped(0, p, rel).pitch \notin (-HALF_PI)..HALF_PI THEN "yes"
    ELSE "no"

\* the handling of an event in which a quit signal leaves the flag alone
HandleEventDeaf ==
    /\ pc = "events"
    /\ ev_i <= MaxEvents
    /\ \E e \in LoopEvents :
          LET l == ApplyLook(yaw, pitch, e.rel)
              m == e.type = "MOUSEMOTION"
          IN /\ event' = e
             /\ running' = running
             /\ yaw' = IF m THEN l.yaw ELSE yaw
             /\ pitch' = IF m THEN l.pitch ELSE pitch
             /\ rel_sum' = IF m THEN <<rel_sum[1] + e.rel[1], rel_sum[2] + e.rel[2]>>
                           ELSE rel_sum
             /\ clamped' = IF m THEN ClampedNext(clamped, pitch, e.rel) ELSE clamped
    /\ ev_i' = ev_i + 1
    /\ UNCHANGED <<pc, menuVars, obj_path, stdout, ctx, cam_pos, basisVars,
                   view, frame, flips, yaw0, pitch0, fnVars>>

\* one iteration of the frame's for loop: the list holds a next event e
HandleEvent ==
    /\ pc = "events"
    /\ ev_i <= MaxEvents
    /\ \E e \in LoopEvents :
          LET l == ApplyLook(yaw, pitch, e.rel)
              m == e.type = "MOUSEMOTION"
          IN /\ event' = e
             /\ running' = IF IsQuit(e) THEN FALSE ELSE running
             /\ yaw' = IF m THEN l.yaw ELSE yaw
             /\ pitch' = IF m THEN l.pitch ELSE pitch
             /\ rel_sum' = IF m THEN <<rel_sum[1] + e.rel[1], rel_sum[2] + e.rel[2]>>
                           ELSE rel_sum
             /\ clamped' = IF m THEN ClampedNext(clamped, pitch, e.rel) ELSE clamped
    /\ ev_i' = ev_i + 1
    /\ UNCHANGED <<pc, menuVars, obj_path, stdout, ctx, cam_pos, basisVars,
                   view, frame, flips, yaw0, pitch0, fnVars>>

\* the movement step taken with the yaw the frame started with
MovementStale ==
    /\ pc = "events"
    /\ \E ks \in KeySets :
          /\ keys' = ks
          /\ cam_pos' = MoveStep(cam_pos, yaw0, ks)
    /\ forward' = Forward(yaw0)
    /\ right' = Right(yaw0)
    /\ event' = NoEvent
    /\ ev_i' = 1
    /\ yaw0' = yaw
    /\ pitch0' = pitch
    /\ rel_sum' = <<0, 0>>
    /\ clamped' = "no"
    /\ pc' = "render"
    /\ UNCHANGED <<menuVars, obj_path, stdout, ctx, yaw, pitch, running,
                   view, frame, flips, fnVars>>

\* the list is exhausted: get_pressed, forward, right, and the six key tests
Movement ==
    /\ pc = "events"
    /\ \E ks \in KeySets :
          /\ keys' = ks
          /\ cam_pos' = MoveStep(cam_pos, yaw, ks)
    /\ forward' = Forward(yaw)
    /\ right' = Right(yaw)
    /\ event' = NoEvent
    /\ ev_i' = 1
    /\ yaw0' = yaw
    /\ pitch0' = pitch
    /\ rel_sum' = <<0, 0>>
    /\ clamped' = "no"
    /\ pc' = "render"
    /\ UNCHANGED <<menuVars, obj_path, stdout, ctx, yaw, pitch, running,
                   view, frame, flips, fnVars>>

\* clear, projection, target, view, MVP upload and vao.render()
Render ==
    /\ pc = "render"
    /\ view' = ViewMatrix(cam_pos, yaw, pitch)
    /\ pc' = "flip"
    /\ UNCHANGED <<menuVars, obj_path, event, ev_i, stdout, ctx, camVars,
                   running, basisVars, frame, flips, histVars, fnVars>>

\* pygame.display.flip(), the last statement of the loop body
Flip ==
    /\ pc = "flip"
    /\ flips' = flips + 1
    /\ pc' = "loop"
    /\ UNCHANGED <<menuVars, obj_path, event, ev_i, stdout, ctx, camVars,
                   running, basisVars, view, frame, histVars, fnVars>>

\* ------------------------------------------------------------ the program
ZeroMatrix == <<<<0, 0, 0, 0>>, <<0, 0, 0, 0>>, <<0, 0, 0, 0>>, <<0, 0, 0, 0>>>>
FnCall(fn, v, eye, target, up) ==
    [fn |-> fn, v |-> v, eye |-> eye, target |-> target, up |-> up]
NoCall == FnCall("none", Zero3, Zero3, Zero3, Zero3)

\* main before obj_menu is called; locals not yet assigned hold placeholders
Init ==
    /\ pc = "start"
    /\ obj_files = <<>>
    /\ selected_index = 0
    /\ menu_active = FALSE
    /\ obj_path = 0
    /\ event = NoEvent
    /\ ev_i = 1
    /\ stdout = <<>>
    /\ ctx = FALSE
    /\ cam_pos = Zero3
    /\ yaw = 0
    /\ pitch = 0
    /\ running = FALSE
    /\ keys = {}
    /\ forward = Zero3
    /\ right = Zero3
    /\ view = ZeroMatrix
    /\ frame = 0
    /\ flips = 0
    /\ yaw0 = 0
    /\ pitch0 = 0
    /\ rel_sum = <<0, 0>>
    /\ clamped = "no"
    /\ call = NoCall
    /\ ret = Zero3

Next ==
    \/ MenuOpen
    \/ MenuPoll
    \/ MenuEvent
    \/ MenuFlip
    \/ LoadMesh
    \/ Setup
    \/ Poll
    \/ HandleEvent
    \/ Movement
    \/ Render
    \/ Flip
    \/ LoopExit

Spec == Init /\ [][Next]_vars

\* ------------------------------------------- the helpers applied on their own
\* the six axis-aligned unit vectors
AxisUnits ==
    {<<Scale, 0, 0>>, <<-Scale, 0, 0>>, <<0, Scale, 0>>, <<0, -Scale, 0>>,
     <<0, 0, Scale>>, <<0, 0, -Scale>>}
\* arguments of normalize
Vecs ==
    AxisUnits \cup {Zero3, <<3000, 4000, 0>>, <<1, 0, 0>>, <<2 * Scale, Scale, -2 * Scale>>,
                    <<-Scale, Scale, Scale>>}
\* eye positions, directions from eye to target, and up vectors of look_at
Eyes == {Zero3, <<0, Scale, 4 * Scale>>, <<Scale, -2 * Scale, 3 * Scale>>}
Dirs == AxisUnits \cup {Zero3, <<3000, 2000, -Scale>>}
Ups == AxisUnits \cup {<<0, 2 * Scale, 0>>}
\* camera states the movement step is applied to
Yaws == {0, PI, HALF_PI, -HALF_PI, 7854, PI - 3000}
Pitches == {0, 5000, -9000, HALF_PI, -HALF_PI}
CamPositions == {<<0, Scale, 4 * Scale>>, <<-2500, 0, 300>>}

\* normalize(call.v) is evaluated and returns
CallNormalize ==
    /\ pc = "fn_call"
    /\ call.fn = "normalize"
    /\ ret' = normalize(call.v)
    /\ pc' = "fn_ret"
    /\ UNCHANGED <<menuVars, obj_path, event, ev_i, stdout, ctx, camVars, running,
                   basisVars, view, frame, flips, histVars, call>>

\* look_at(call.eye, call.target, call.up) is evaluated and returns
CallLookAt ==
    /\ pc = "fn_call"
    /\ call.fn = "look_at"
    /\ ret' = look_at(call.eye, call.target, call.up)
    /\ pc' = "fn_ret"
    /\ UNCHANGED <<menuVars, obj_path, event, ev_i, stdout, ctx, camVars, running,
                   basisVars, view, frame, flips, histVars, call>>

\* a helper about to be called with arguments of the sets above, or the frame
\* loop about to take its movement step from a camera state of the sets above
InitMath ==
    /\ obj_files = <<>>
    /\ selected_index = 0
    /\ menu_active = FALSE
    /\ obj_path = 1
    /\ event = NoEvent
    /\ ev_i = 1
    /\ stdout = <<>>
    /\ keys = {}
    /\ forward = Zero3
    /\ right = Zero3
    /\ view = ZeroMatrix
    /\ flips = 0
    /\ rel_sum = <<0, 0>>
    /\ clamped = "no"
    /\ ret = Zero3
    /\ \/ /\ pc = "fn_call"
          /\ \/ \E v \in Vecs : call = FnCall("normalize", v, Zero3, Zero3, Zero3)
             \/ \E e \in Eyes, d \in Dirs, u \in Ups :
                   call = FnCall("look_at", Zero3, e, VAdd(e, d), u)
          /\ ctx = FALSE
          /\ cam_pos = Zero3
          /\ yaw = 0
          /\ pitch = 0
          /\ running = FALSE
          /\ frame = 0
       \/ /\ pc = "events"
          /\ call = NoCall
          /\ ctx = TRUE
          /\ cam_pos \in CamPositions
          /\ yaw \in Yaws
          /\ pitch \in Pitches
          /\ running = TRUE
          /\ frame = 1
    /\ yaw0 = yaw
    /\ pitch0 = pitch

NextMath ==
    \/ CallNormalize
    \/ CallLookAt
    \/ Movement

SpecMath == InitMath /\ [][NextMath]_vars

\* ------------------------------------------------------------- properties
\* a step of the frame's for loop that handles one event
HandledEvent == pc = "events" /\ pc' = "events" /\ ev_i' = ev_i + 1
\* the movement step of a frame
MovedStep == pc = "events" /\ pc' = "render"

\* C1: after every mouse-motion event, whatever its dx and dy and however many
\* arrive in a frame, the pitch lies in the closed range [-pi/2, pi/2].
PitchWithinClosedRange == -HALF_PI <= pitch /\ pitch <= HALF_PI

\* C1 witness: a motion event pushed the pitch past -pi/2 and the clamp held it there
PitchClampedLow == pc = "events" /\ clamped = "yes" /\ pitch = -HALF_PI /\ rel_sum[2] < 0

\* C2: the pitch stays in the open range (-pi/2, pi/2): it never equals a bound.
PitchWithinOpenRange == -HALF_PI < pitch /\ pitch < HALF_PI

\* C3: with only the forward key held the movement step leaves the camera's y
\* alone for every yaw and pitch, leaves yaw and pitch alone, and with yaw = 0
\* adds MOVE_SPEED to z and leaves x alone.
ForwardIsHorizontal ==
    [][(MovedStep /\ keys' = {"K_w"}) =>
          /\ cam_pos'[2] = cam_pos[2]
          /\ yaw' = yaw
          /\ pitch' = pitch
          /\ (yaw = 0 => /\ cam_pos'[3] = cam_pos[3] + MOVE_SPEED
                         /\ cam_pos'[1] = cam_pos[1])]_vars

\* C3 witness: forward was held at yaw = 0 with the camera pitched up
ForwardMovedAtYawZero ==
    /\ pc = "render"
    /\ keys = {"K_w"}
    /\ yaw = 0
    /\ pitch = 5000
    /\ cam_pos = <<0, Scale, 4 * Scale + MOVE_SPEED>>

\* C4: a quit signal sets the flag and nothing else clears it; the frame that
\* received it still runs to its flip (the loop is never stuck), no further
\* frame starts, and the loop reaches pygame.quit() only with the flag cleared
\* and every started frame flipped.
QuitCompletesFrame ==
    /\ [][(HandledEvent /\ IsQuit(event')) => ~running']_vars
    /\ [][(running /\ ~running') => (HandledEvent /\ IsQuit(event'))]_vars
    /\ [][(ctx /\ ~running) => frame' = frame]_vars
    /\ [][(ctx /\ ~running /\ pc = "events") => pc' \in {"events", "render"}]_vars
    /\ [][pc = "render" => pc' = "flip" /\ flips' = flips]_vars
    /\ [][pc = "flip" => pc' = "loop" /\ flips' = flips + 1]_vars
    /\ [][(pc = "loop" /\ ~running) => pc' = "done"]_vars
    /\ [][pc' = "done" => (pc = "loop" /\ ~running)]_vars
    /\ []((ctx /\ ~running /\ pc # "done") => ENABLED Next)
    /\ [](pc = "done" => (~running /\ flips = frame))
    /\ [](pc = "loop" => flips = frame)

\* C4 witness: the quit signal arrived in the second frame; that frame still
\* moved the camera and flipped, no third frame started, and the loop ended
QuitFrameCompleted ==
    /\ pc = "done"
    /\ frame = 2
    /\ flips = 2
    /\ keys = {"K_w"}
    /\ pitch = HALF_PI

\* C5: a load_obj that raises is reported on stdout and main returns: no
\* exception leaves main, no GPU context is created and no frame starts.
LoadFailureAbortsCleanly ==
    /\ [][(pc = "load" /\ pc' # "setup") =>
             /\ pc' = "returned"
             /\ Len(stdout') = Len(stdout) + 1
             /\ stdout'[Len(stdout')][1] = "Error loading OBJ"]_vars
    /\ [](pc = "returned" => (~ctx /\ frame = 0 /\ flips = 0 /\ ~ENABLED Next))
    /\ [](pc = "raised" => obj_path = 0)
    /\ [](ctx => stdout = <<>>)

\* C5 witness: the third listed file was selected, did not parse, and main returned
ParseErrorReported ==
    /\ pc = "returned"
    /\ obj_path = 3
    /\ stdout = << <<"Error loading OBJ", "ParseError">> >>
    /\ ~ctx

\* the rows the view matrix has for a unit forward f and side s = cross(f, up)
AxisRows(eye, f, up) ==
    LET s == Cross(f, up)
        u == Cross(s, f)
    IN << <<s[1], s[2], s[3], -Dot(s, eye)>>,
          <<u[1], u[2], u[3], -Dot(u, eye)>>,
          <<-f[1], -f[2], -f[3], Dot(f, eye)>>,
          <<0, 0, 0, Scale>> >>
Identity4 ==
    << <<Scale, 0, 0, 0>>, <<0, Scale, 0, 0>>, <<0, 0, Scale, 0>>, <<0, 0, 0, Scale>> >>

\* C6: look_at((0,0,0), (0,0,-1), (0,1,0)) is the identity, and for axis-aligned
\* unit forward and up the rows are [s, -s.eye], [u, -u.eye], [-f, f.eye],
\* [0,0,0,1] with s = cross(f, up) and u = cross(s, f).
LookAtAxisAligned ==
    (pc = "fn_ret" /\ call.fn = "look_at") =>
        LET f == VSub(call.target, call.eye)
        IN /\ (call.eye = Zero3 /\ call.target = <<0, 0, -Scale>> /\ call.up = WorldUp)
                 => ret = Identity4
           /\ (f \in AxisUnits /\ call.up \in AxisUnits)
                 => ret = AxisRows(call.eye, f, call.up)

\* C6 witness: look_at returned for a camera off the origin looking down -x
LookAtReturnedOffOrigin ==
    /\ pc = "fn_ret"
    /\ call.fn = "look_at"
    /\ call.eye = <<Scale, -2 * Scale, 3 * Scale>>
    /\ call.target = <<0, -2 * Scale, 3 * Scale>>
    /\ call.up = WorldUp
    /\ ret = << <<0, 0, -Scale, 3 * Scale>>, <<0, Scale, 0, 2 * Scale>>,
                <<Scale, 0, 0, -Scale>>, <<0, 0, 0, Scale>> >>

\* the matrix whose only non-zero entry is [3][3] = 1
DegenerateMatrix ==
    << <<0, 0, 0, 0>>, <<0, 0, 0, 0>>, <<0, 0, 0, 0>>, <<0, 0, 0, Scale>> >>

\* C7: normalize of the zero vector is the zero vector, and look_at with
\* target = eye returns the matrix whose basis rows and translation are zero.
NormalizeZeroIsZero ==
    /\ (pc = "fn_ret" /\ call.fn = "normalize" /\ call.v = Zero3) => ret = Zero3
    /\ (pc = "fn_ret" /\ call.fn = "look_at" /\ call.target = call.eye)
          => ret = DegenerateMatrix

\* C7 witness: look_at returned for target = eye away from the origin
LookAtReturnedDegenerate ==
    /\ pc = "fn_ret"
    /\ call.fn = "look_at"
    /\ call.eye = <<0, Scale, 4 * Scale>>
    /\ call.target = call.eye
    /\ ret = DegenerateMatrix

\* C8: in every frame yaw and pitch change only while the events are handled,
\* then the movement step uses the basis of the yaw so reached, then the view
\* matrix is built from the camera so moved; from the matrix construction to
\* the end of the frame the camera is not written.
FrameOrder ==
    /\ [][(ctx /\ (yaw' # yaw \/ pitch' # pitch)) => HandledEvent]_vars
    /\ [][(ctx /\ cam_pos' # cam_pos) => MovedStep]_vars
    /\ [][MovedStep =>
             /\ forward' = <<Sin(yaw), 0, Cos(yaw)>>
             /\ right' = normalize(Cross(forward', WorldUp))
             /\ cam_pos' = MoveKeys(cam_pos, forward', right', keys')]_vars
    /\ [][view' # view => (pc = "render" /\ pc' = "flip")]_vars
    /\ [][pc = "render" =>
             view' = look_at(cam_pos, LookTarget(cam_pos, yaw, pitch), WorldUp)]_vars
    /\ [][(pc = "render" \/ pc = "flip") => UNCHANGED camVars]_vars
    /\ [](pc = "flip" => view = look_at(cam_pos, LookTarget(cam_pos, yaw, pitch), WorldUp))

\* C8 witness: the frame turned the camera by a motion event, then moved forward
\* along the turned direction, then built the matrix
FrameTurnedThenMoved ==
    /\ pc = "flip"
    /\ frame = 1
    /\ yaw = PI - 100 * LOOK_SPEED
    /\ keys = {"K_w"}
    /\ forward = <<2955, 0, -9554>>
    /\ cam_pos = <<296, Scale, 4 * Scale - 955>>
    /\ view[3] = <<0, -Scale, 0, Scale>>

MenuHandled == pc = "menu_events" /\ pc' = "menu_events" /\ ev_i' = ev_i + 1
InMenu == pc \in {"menu", "menu_events"}

\* C10: in the menu selected_index stays in 0..N-1, Up from 0 gives N-1 and
\* Down from N-1 gives 0, and the menu is left only by Return, returning the
\* path of the selected listed file, or by a quit event, returning no path.
MenuSelection ==
    /\ [](InMenu => (Len(obj_files) > 0 /\ selected_index \in 0..(Len(obj_files) - 1)))
    /\ [][(MenuHandled /\ event' = KeyEv("K_UP")) =>
             selected_index' = IF selected_index = 0 THEN Len(obj_files) - 1
                               ELSE selected_index - 1]_vars
    /\ [][(MenuHandled /\ event' = KeyEv("K_DOWN")) =>
             selected_index' = IF selected_index = Len(obj_files) - 1 THEN 0
                               ELSE selected_index + 1]_vars
    /\ [][(MenuHandled /\ event'.key \notin {"K_UP", "K_DOWN"}) =>
             selected_index' = selected_index]_vars
    /\ [][(menu_active /\ ~menu_active' /\ pc' # "load") =>
             (MenuHandled /\ event' = KeyEv("K_RETURN"))]_vars
    /\ [][(InMenu /\ pc' \notin {"menu", "menu_events"}) =>
             \/ /\ pc' = "load"
                /\ ~menu_active
                /\ obj_path' = selected_index + 1
                /\ obj_path' \in 1..Len(obj_files)
             \/ /\ pc' = "exited"
                /\ event'.type = "QUIT"
                /\ obj_path' = 0]_vars

\* C10 witness: Up from the first of three files wrapped to the last, and Return
\* handed that file's path to main
MenuWrappedAndReturned == pc = "load" /\ obj_path = 3

====
